---- MODULE Spec2Model ----
(***************************************************************************)
(* The trusted oracle broker of src/trusted_oracle/lib.rs as a state       *)
(* machine: the contract storage, the host's block counter and the         *)
(* contract's account balance, one action per ink! message.                *)
(*                                                                         *)
(* A message is one atomic step.  A message that returns Err returns       *)
(* normally: what it wrote to storage before the return stays written      *)
(* (callback's RequestExpired branch relies on this, and so it holds for   *)
(* every other early return too).                                          *)
(***************************************************************************)
EXTENDS Integers, FiniteSets, Sequences, TLC

(***************************************************************************)
(* Bounds of the model.                                                    *)
(***************************************************************************)
\* request ids are u64 in the code; here they live in 0..MaxId and
\* wrapping_add wraps from MaxId to 0
MaxId == 1
\* the host's block counter is advanced up to MaxBlock
MaxBlock == 2
\* set_fee takes a new fee in 0..MaxFee
MaxFee == 1
\* constructor arguments min_valid_period, max_valid_period of `new`
NewMinValidPeriod == 1
NewMaxValidPeriod == 2
\* the value attached to a payable call is in 0..MaxPayment: less than a
\* positive fee, the fee, more than the fee
MaxPayment == MaxFee + 1
\* a payable call is accepted while the contract holds at most MaxBalance
MaxBalance == MaxFee + 1
\* request's valid_period argument is in 0..MaxValidPeriodArg: below the
\* minimum, within the bounds, above the maximum
MaxValidPeriodArg == NewMaxValidPeriod + 1

\* simple_rng: min, max and randint are u32 in the code; here 0..MaxRandint
MaxRandint == 1
\* simple_rng: make_request is called up to MaxRngRequests times
MaxRngRequests == 2

\* the accounts that send messages, and those the admin adds and removes
Accounts == {"alice", "bob"}
Users == {"bob"}
RequestIds == 0..MaxId
IdModulus == MaxId + 1

\* what the callee of the delivery call did: ran and returned Ok(()), ran and
\* returned an Err value, or trapped (the call itself failed)
Deliveries == {"Delivered", "Rejected", "Trapped"}
\* what the host's transfer returned
HostTransferResults == {"Ok", "BelowSubsistenceThreshold", "Unknown"}

VARIABLES
    admin,              \* storage: admin
    authorized_users,   \* storage: authorized_users (the key set of the map)
    authorized_oracle,  \* storage: authorized_oracle
    requests,           \* storage: requests, id -> <<requester, valid_till, fee>>
    request_idx,        \* storage: request_idx
    fee,                \* storage: fee
    min_valid_period,   \* storage: min_valid_period
    max_valid_period,   \* storage: max_valid_period
    block_number,       \* host: self.env().block_number()
    balance,            \* host: self.env().balance(), the contract's own account
    last,               \* the last message: its arguments, result, transfer, events
    history,            \* per id: was a CallbackComplete emitted, was the id allocated again since
    tracking,           \* whether history is recorded in this behaviour
    rng_owner,          \* simple_rng storage: owner
    rng_request_id,     \* simple_rng storage: request_id
    rng_requests,       \* simple_rng storage: requests, id -> <<min, max>>
    rng_results,        \* simple_rng storage: results, id -> randint
    entropy_owner,      \* simple_entropy storage: owner
    entropy_requests,   \* simple_entropy storage: requests, request_id -> result
    store_last          \* the last message to simple_rng or simple_entropy

storage == <<admin, authorized_users, authorized_oracle, requests, request_idx,
             fee, min_valid_period, max_valid_period>>
\* the two request stores, src/simple_rng/lib.rs and src/simple_entropy/lib.rs
simple_rng == <<rng_owner, rng_request_id, rng_requests, rng_results>>
simple_entropy == <<entropy_owner, entropy_requests>>
stores == <<simple_rng, simple_entropy, store_last>>

\* the trusted oracle with its host and the record of its messages
trusted_oracle == <<storage, block_number, balance, last, history, tracking>>

vars == <<admin, authorized_users, authorized_oracle, requests, request_idx,
          fee, min_valid_period, max_valid_period, block_number, balance, last, history, tracking,
          stores>>

(***************************************************************************)
(* ink_storage HashMap operations used by the contract.                    *)
(***************************************************************************)
contains_key(m, k) == k \in DOMAIN m

\* variant: an insert that keeps the value of a key already present
insert_keeps_existing(m, k, v) ==
    [x \in (DOMAIN m) \cup {k} |-> IF x \in DOMAIN m THEN m[x] ELSE v]

insert(m, k, v) == [x \in (DOMAIN m) \cup {k} |-> IF x = k THEN v ELSE m[x]]

\* variant: a take that leaves the entry in the map
take_keeps_entry(m, k) == m

take(m, k) == [x \in (DOMAIN m) \ {k} |-> m[x]]

\* a stored request is the tuple (AccountId, ExpiryBlock, fee)
user_id_of(request) == request[1]
valid_till_of(request) == request[2]
\* variant: the fee of a stored request is read from the storage field fee
current_fee_of(request) == fee

fee_of(request) == request[3]

\* variant: the counter is not advanced
wrapping_add_stays(idx) == idx

\* self.request_idx.wrapping_add(1) on the u64 counter
wrapping_add(idx) == (idx + 1) % IdModulus

(***************************************************************************)
(* The record of one message: what was called with which arguments, what   *)
(* it returned, which transfer the contract made and which events it       *)
(* emitted.                                                                *)
(***************************************************************************)
NoAccount == "nobody"
NoTransfer == [to |-> NoAccount, amount |-> 0]

\* arg: the numeric argument (valid_period, request_id or new_fee); who: the
\* account argument; ok: the value inside Ok (request's new id)
Message(op, caller, arg, who, transferred, res, ok, delivery, transfer, events) ==
    [op |-> op, caller |-> caller, arg |-> arg, who |-> who,
     transferred |-> transferred, res |-> res, ok |-> ok,
     delivery |-> delivery, transfer |-> transfer, events |-> events]

(***************************************************************************)
(* The request stores as their constructors leave them.                    *)
(***************************************************************************)
\* Hash::from([0x00; 32]) and one other hash
ZeroHash == "00"
Hashes == {ZeroHash, "42"}
RngRequestIds == 0..MaxRngRequests

NoHash == "none"

\* arg, value: request_id and randint of simple_rng; key, hash: request_id
\* and result of simple_entropy; ok: the u32 inside Ok; out: the Hash returned
StoreMessage(contract, op, caller, arg, value, key, hash, res, ok, out) ==
    [contract |-> contract, op |-> op, caller |-> caller, arg |-> arg,
     value |-> value, key |-> key, hash |-> hash, res |-> res, ok |-> ok,
     out |-> out]

\* SimpleRNG::new(owner)
rng_new(owner) ==
    /\ rng_owner = owner
    /\ rng_request_id = 0
    /\ rng_requests = [id \in {} |-> << >>]
    /\ rng_results = [id \in {} |-> 0]

\* SimpleEntropy::new(owner)
entropy_new(owner) ==
    /\ entropy_owner = owner
    /\ entropy_requests = [id \in {} |-> NoHash]

\* both stores deployed by alice, no message sent to them
StoresDeployed ==
    /\ rng_new("alice")
    /\ entropy_new("alice")
    /\ store_last = StoreMessage("none", "new", "alice", 0, 0, NoHash, NoHash,
                                 "Ok", 0, NoHash)

Init ==
    /\ StoresDeployed
    /\ admin = "alice"
    /\ authorized_users = {}
    /\ authorized_oracle \in Accounts
    /\ requests = [id \in {} |-> << >>]
    /\ request_idx = 0
    /\ fee = 0
    /\ min_valid_period = NewMinValidPeriod
    /\ max_valid_period = NewMaxValidPeriod
    /\ block_number = 0
    /\ balance = 0
    /\ last = Message("new", "alice", 0, NoAccount, 0, "Ok", 0, "none", NoTransfer, {})
    /\ history = [id \in RequestIds |-> "never"]
    /\ tracking = FALSE

(***************************************************************************)
(* The host.                                                               *)
(***************************************************************************)
\* self.env().transfer(dest, value): the host moves `value` out of the
\* contract's account and returns Ok, or moves nothing and returns an error.
\* `tx` is the host's answer when the account holds enough; it never moves
\* more than the account holds.
transfer(bal, value, tx) == IF value > bal THEN "TransferFailed" ELSE tx

\* the match on ink_env::Error in claim_ and refund_
transfer_error(err) ==
    IF err = "BelowSubsistenceThreshold" THEN "BelowSubsistenceThreshold"
    ELSE "TransferFailed"

\* variant: the result of the call is not looked at
fire_ignores_failure(delivery) == "Ok"

\* build_call(..).fire(): Err exactly when the call itself failed; a callee
\* that ran to its end has its return value dropped by returns::<()>()
fire(delivery) == IF delivery = "Trapped" THEN "Err" ELSE "Ok"

(***************************************************************************)
(* Internal functions.  Each returns the Result, the contract balance      *)
(* after it, the transfer it made and the events it emitted.               *)
(***************************************************************************)
Effect(res, bal, tr, events) ==
    [res |-> res, balance |-> bal, transfer |-> tr, events |-> events]

\* variant: claim_ leaves one unit of the balance in the account
claim_all_but_one(bal, oracle, tx) ==
    IF bal > 0
    THEN IF transfer(bal, bal - 1, tx) = "Ok"
         THEN Effect("Ok", 1, [to |-> oracle, amount |-> bal - 1], {"RewardsClaimed"})
         ELSE Effect(transfer_error(transfer(bal, bal - 1, tx)), bal, NoTransfer, {})
    ELSE Effect("Ok", bal, NoTransfer, {})

claim_(bal, oracle, tx) ==
    IF bal > 0
    THEN IF transfer(bal, bal, tx) = "Ok"
         THEN Effect("Ok", 0, [to |-> oracle, amount |-> bal], {"RewardsClaimed"})
         ELSE Effect(transfer_error(transfer(bal, bal, tx)), bal, NoTransfer, {})
    ELSE Effect("Ok", bal, NoTransfer, {})

\* variant: refund_ emits the event and returns Ok without a transfer
refund_without_transfer(bal, user_id, amount, tx) ==
    Effect("Ok", bal, NoTransfer, {"RequestInvalidated"})

\* variant: no test of the contract balance before the transfer
refund_without_balance_test(bal, user_id, amount, tx) ==
    IF amount > 0
    THEN IF transfer(bal, amount, tx) # "Ok"
         THEN Effect(transfer_error(transfer(bal, amount, tx)), bal, NoTransfer, {})
         ELSE Effect("Ok", bal - amount, [to |-> user_id, amount |-> amount],
                     {"RequestInvalidated"})
    ELSE Effect("Ok", bal, NoTransfer, {"RequestInvalidated"})

refund_(bal, user_id, amount, tx) ==
    IF amount > 0
    THEN IF bal < amount
         THEN Effect("InsufficientFunds", bal, NoTransfer, {})
         ELSE IF transfer(bal, amount, tx) # "Ok"
              THEN Effect(transfer_error(transfer(bal, amount, tx)), bal, NoTransfer, {})
              ELSE Effect("Ok", bal - amount, [to |-> user_id, amount |-> amount],
                          {"RequestInvalidated"})
    ELSE Effect("Ok", bal, NoTransfer, {"RequestInvalidated"})

\* variant: expiry already at valid_till
expired_at_valid_till(valid_till, now) == valid_till <= now

\* *valid_till < self.env().block_number()
is_expired(valid_till, now) == valid_till < now

(***************************************************************************)
(* History (recorded when tracking): for each id, "never" until a          *)
(* CallbackComplete is emitted for it, then "completed" until request      *)
(* allocates the id again, "reallocated" from then on.                     *)
(***************************************************************************)
Completed(h, id) == IF tracking THEN [h EXCEPT ![id] = "completed"] ELSE h

Allocated(h, id) ==
    IF tracking /\ h[id] = "completed" THEN [h EXCEPT ![id] = "reallocated"] ELSE h

(***************************************************************************)
(* User methods.                                                           *)
(***************************************************************************)
\* variant: valid_period is checked before the caller and the payment
request_checks_period_first(from, transferred, valid_period) ==
    IF valid_period < min_valid_period \/ valid_period > max_valid_period
    THEN "ValueError"
    ELSE IF from \notin authorized_users THEN "Unauthorized"
    ELSE IF fee > 0 /\ transferred # fee THEN "PaymentRequired"
    ELSE "Ok"

\* variant: valid_period is not checked
request_accepts_any_period(from, transferred, valid_period) ==
    IF from \notin authorized_users THEN "Unauthorized"
    ELSE IF fee > 0 /\ transferred # fee THEN "PaymentRequired"
    ELSE "Ok"

\* variant: a payment above the fee is accepted
request_accepts_overpayment(from, transferred, valid_period) ==
    IF from \notin authorized_users THEN "Unauthorized"
    ELSE IF fee > 0 /\ transferred < fee THEN "PaymentRequired"
    ELSE IF valid_period < min_valid_period \/ valid_period > max_valid_period
    THEN "ValueError"
    ELSE "Ok"

\* The checks of request in the order the code makes them: the Err it
\* returns, or "Ok".
request_result(from, transferred, valid_period) ==
    IF from \notin authorized_users THEN "Unauthorized"
    ELSE IF fee > 0 /\ transferred # fee THEN "PaymentRequired"
    ELSE IF valid_period < min_valid_period \/ valid_period > max_valid_period
    THEN "ValueError"
    ELSE "Ok"

\* request is payable: the host has added the transferred value to the
\* contract's account before the message runs, and the message returns
\* normally on every path.  request_idx is advanced after the payment check
\* and before the valid_period check.
request(from, transferred, valid_period) ==
    LET res == request_result(from, transferred, valid_period)
        idx == IF res \in {"ValueError", "Ok"} THEN wrapping_add(request_idx)
               ELSE request_idx
        valid_till == block_number + valid_period
    IN  /\ balance + transferred <= MaxBalance
        /\ balance' = balance + transferred
        /\ request_idx' = idx
        /\ requests' = IF res = "Ok"
                       THEN insert(requests, idx, <<from, valid_till, fee>>)
                       ELSE requests
        /\ history' = IF res = "Ok" THEN Allocated(history, idx) ELSE history
        /\ last' = Message("request", from, valid_period, NoAccount, transferred,
                           res, IF res = "Ok" THEN idx ELSE 0, "none", NoTransfer,
                           IF res = "Ok" THEN {"Request"} ELSE {})
        /\ UNCHANGED <<admin, authorized_users, authorized_oracle, fee,
                       min_valid_period, max_valid_period, block_number, tracking, stores>>

(***************************************************************************)
(* Oracle methods.                                                         *)
(***************************************************************************)
\* variant: a delivery that succeeded pays the stored fee to the oracle
callback_pays_oracle(from, request_id, delivery, tx) ==
    /\ UNCHANGED <<admin, authorized_users, authorized_oracle, request_idx, fee,
                   min_valid_period, max_valid_period, block_number, tracking, stores>>
    /\ IF from # authorized_oracle
       THEN /\ UNCHANGED <<requests, balance, history>>
            /\ last' = Message("callback", from, request_id, NoAccount, 0,
                               "Unauthorized", 0, "none", NoTransfer, {})
       ELSE IF ~contains_key(requests, request_id)
       THEN /\ UNCHANGED <<requests, balance, history>>
            /\ last' = Message("callback", from, request_id, NoAccount, 0,
                               "RequestNotFound", 0, "none", NoTransfer, {})
       ELSE LET request_ == requests[request_id] IN
            IF is_expired(valid_till_of(request_), block_number)
            THEN LET r == refund_(balance, user_id_of(request_), fee_of(request_), tx) IN
                 /\ balance' = r.balance
                 /\ requests' = IF r.res = "Ok" THEN take(requests, request_id)
                                ELSE requests
                 /\ UNCHANGED history
                 /\ last' = Message("callback", from, request_id, NoAccount, 0,
                                    IF r.res = "Ok" THEN "RequestExpired" ELSE r.res,
                                    0, "none", r.transfer, r.events)
            ELSE IF fire(delivery) = "Err"
            THEN /\ UNCHANGED <<requests, balance, history>>
                 /\ last' = Message("callback", from, request_id, NoAccount, 0,
                                    "CallbackExecutionFailed", 0, delivery,
                                    NoTransfer, {})
            ELSE LET paid == IF balance >= fee_of(request_)
                             THEN fee_of(request_) ELSE 0 IN
                 /\ requests' = take(requests, request_id)
                 /\ history' = Completed(history, request_id)
                 /\ balance' = balance - paid
                 /\ last' = Message("callback", from, request_id, NoAccount, 0,
                                    "Ok", 0, delivery,
                                    IF paid > 0
                                    THEN [to |-> authorized_oracle, amount |-> paid]
                                    ELSE NoTransfer,
                                    {"CallbackComplete"})

\* variant: the caller is checked after the lookup and the expiry branch
callback_checks_caller_last(from, request_id, delivery, tx) ==
    /\ UNCHANGED <<admin, authorized_users, authorized_oracle, request_idx, fee,
                   min_valid_period, max_valid_period, block_number, tracking, stores>>
    /\ IF ~contains_key(requests, request_id)
       THEN /\ UNCHANGED <<requests, balance, history>>
            /\ last' = Message("callback", from, request_id, NoAccount, 0,
                               "RequestNotFound", 0, "none", NoTransfer, {})
       ELSE LET request_ == requests[request_id] IN
            IF is_expired(valid_till_of(request_), block_number)
            THEN LET r == refund_(balance, user_id_of(request_), fee_of(request_), tx) IN
                 /\ balance' = r.balance
                 /\ requests' = IF r.res = "Ok" THEN take(requests, request_id)
                                ELSE requests
                 /\ UNCHANGED history
                 /\ last' = Message("callback", from, request_id, NoAccount, 0,
                                    IF r.res = "Ok" THEN "RequestExpired" ELSE r.res,
                                    0, "none", r.transfer, r.events)
            ELSE IF from # authorized_oracle
            THEN /\ UNCHANGED <<requests, balance, history>>
                 /\ last' = Message("callback", from, request_id, NoAccount, 0,
                                    "Unauthorized", 0, "none", NoTransfer, {})
            ELSE IF fire(delivery) = "Err"
            THEN /\ UNCHANGED <<requests, balance, history>>
                 /\ last' = Message("callback", from, request_id, NoAccount, 0,
                                    "CallbackExecutionFailed", 0, delivery,
                                    NoTransfer, {})
            ELSE /\ requests' = take(requests, request_id)
                 /\ history' = Completed(history, request_id)
                 /\ UNCHANGED balance
                 /\ last' = Message("callback", from, request_id, NoAccount, 0,
                                    "Ok", 0, delivery, NoTransfer,
                                    {"CallbackComplete"})

\* Deliver the oracle result.  `delivery` is what the callee does with the
\* call, `tx` what the host answers to the refund's transfer.
callback(from, request_id, delivery, tx) ==
    /\ UNCHANGED <<admin, authorized_users, authorized_oracle, request_idx, fee,
                   min_valid_period, max_valid_period, block_number, tracking, stores>>
    /\ IF from # authorized_oracle
       THEN /\ UNCHANGED <<requests, balance, history>>
            /\ last' = Message("callback", from, request_id, NoAccount, 0,
                               "Unauthorized", 0, "none", NoTransfer, {})
       ELSE IF ~contains_key(requests, request_id)
       THEN /\ UNCHANGED <<requests, balance, history>>
            /\ last' = Message("callback", from, request_id, NoAccount, 0,
                               "RequestNotFound", 0, "none", NoTransfer, {})
       ELSE LET request_ == requests[request_id] IN
            IF is_expired(valid_till_of(request_), block_number)
            THEN LET r == refund_(balance, user_id_of(request_), fee_of(request_), tx) IN
                 /\ balance' = r.balance
                 /\ requests' = IF r.res = "Ok" THEN take(requests, request_id)
                                ELSE requests
                 /\ UNCHANGED history
                 /\ last' = Message("callback", from, request_id, NoAccount, 0,
                                    IF r.res = "Ok" THEN "RequestExpired" ELSE r.res,
                                    0, "none", r.transfer, r.events)
            ELSE IF fire(delivery) = "Err"
            THEN /\ UNCHANGED <<requests, balance, history>>
                 /\ last' = Message("callback", from, request_id, NoAccount, 0,
                                    "CallbackExecutionFailed", 0, delivery,
                                    NoTransfer, {})
            ELSE /\ requests' = take(requests, request_id)
                 /\ history' = Completed(history, request_id)
                 /\ UNCHANGED balance
                 /\ last' = Message("callback", from, request_id, NoAccount, 0,
                                    "Ok", 0, delivery, NoTransfer,
                                    {"CallbackComplete"})

\* variant: claim_rewards without the check of the caller
claim_rewards_by_anyone(from, tx) ==
    /\ UNCHANGED <<storage, block_number, history, tracking, stores>>
    /\ LET r == claim_(balance, authorized_oracle, tx) IN
       /\ balance' = r.balance
       /\ last' = Message("claim_rewards", from, 0, NoAccount, 0,
                          r.res, 0, "none", r.transfer, r.events)

\* Distribute the rewards to the oracle.
claim_rewards(from, tx) ==
    /\ UNCHANGED <<storage, block_number, history, tracking, stores>>
    /\ IF from # authorized_oracle
       THEN /\ UNCHANGED balance
            /\ last' = Message("claim_rewards", from, 0, NoAccount, 0,
                               "Unauthorized", 0, "none", NoTransfer, {})
       ELSE LET r == claim_(balance, authorized_oracle, tx) IN
            /\ balance' = r.balance
            /\ last' = Message("claim_rewards", from, 0, NoAccount, 0,
                               r.res, 0, "none", r.transfer, r.events)

(***************************************************************************)
(* Admin methods.                                                          *)
(***************************************************************************)
\* variant: set_oracle sets the new oracle, then sends the rewards to it, and
\* keeps the new oracle when the transfer fails
set_oracle_installs_first(from, new_oracle, tx) ==
    /\ UNCHANGED <<admin, authorized_users, requests, request_idx, fee,
                   min_valid_period, max_valid_period, block_number, history, tracking, stores>>
    /\ IF from # admin
       THEN /\ UNCHANGED <<authorized_oracle, balance>>
            /\ last' = Message("set_oracle", from, 0, new_oracle, 0,
                               "Unauthorized", 0, "none", NoTransfer, {})
       ELSE LET r == claim_(balance, new_oracle, tx) IN
            /\ balance' = r.balance
            /\ authorized_oracle' = new_oracle
            /\ last' = Message("set_oracle", from, 0, new_oracle, 0, r.res, 0,
                               "none", r.transfer, r.events \cup {"OracleSet"})

\* set_oracle sends the rewards to the current oracle, then sets the new one.
set_oracle(from, new_oracle, tx) ==
    /\ UNCHANGED <<admin, authorized_users, requests, request_idx, fee,
                   min_valid_period, max_valid_period, block_number, history, tracking, stores>>
    /\ IF from # admin
       THEN /\ UNCHANGED <<authorized_oracle, balance>>
            /\ last' = Message("set_oracle", from, 0, new_oracle, 0,
                               "Unauthorized", 0, "none", NoTransfer, {})
       ELSE LET r == claim_(balance, authorized_oracle, tx) IN
            /\ balance' = r.balance
            /\ authorized_oracle' = IF r.res = "Ok" THEN new_oracle
                                    ELSE authorized_oracle
            /\ last' = Message("set_oracle", from, 0, new_oracle, 0, r.res, 0,
                               "none", r.transfer,
                               IF r.res = "Ok" THEN r.events \cup {"OracleSet"}
                               ELSE r.events)

\* Change the per-request fee.
set_fee(from, new_fee) ==
    /\ UNCHANGED <<admin, authorized_users, authorized_oracle, requests,
                   request_idx, min_valid_period, max_valid_period,
                   block_number, balance, history, tracking, stores>>
    /\ IF from # admin
       THEN /\ UNCHANGED fee
            /\ last' = Message("set_fee", from, new_fee, NoAccount, 0,
                               "Unauthorized", 0, "none", NoTransfer, {})
       ELSE /\ fee' = new_fee
            /\ last' = Message("set_fee", from, new_fee, NoAccount, 0, "Ok", 0,
                               "none", NoTransfer, {"FeeChanged"})

\* Add user to the oracle contract.
add_user(from, user) ==
    /\ UNCHANGED <<admin, authorized_oracle, requests, request_idx, fee,
                   min_valid_period, max_valid_period, block_number, balance,
                   history, tracking, stores>>
    /\ IF from # admin
       THEN /\ UNCHANGED authorized_users
            /\ last' = Message("add_user", from, 0, user, 0, "Unauthorized", 0,
                               "none", NoTransfer, {})
       ELSE /\ authorized_users' = authorized_users \cup {user}
            /\ last' = Message("add_user", from, 0, user, 0, "Ok", 0, "none",
                               NoTransfer, {"UserAdded"})

\* variant: remove_user returns Ok and emits the event without removing the user
remove_user_keeps_user(from, user) ==
    /\ UNCHANGED <<admin, authorized_oracle, requests, request_idx, fee,
                   min_valid_period, max_valid_period, block_number, balance,
                   history, tracking, stores, authorized_users>>
    /\ IF from # admin
       THEN last' = Message("remove_user", from, 0, user, 0, "Unauthorized",
                            0, "none", NoTransfer, {})
       ELSE last' = Message("remove_user", from, 0, user, 0, "Ok", 0, "none",
                            NoTransfer, {"UserRemoved"})

\* Remove user from the oracle contract.
remove_user(from, user) ==
    /\ UNCHANGED <<admin, authorized_oracle, requests, request_idx, fee,
                   min_valid_period, max_valid_period, block_number, balance,
                   history, tracking, stores>>
    /\ IF from # admin
       THEN /\ UNCHANGED authorized_users
            /\ last' = Message("remove_user", from, 0, user, 0, "Unauthorized",
                               0, "none", NoTransfer, {})
       ELSE /\ authorized_users' = authorized_users \ {user}
            /\ last' = Message("remove_user", from, 0, user, 0, "Ok", 0, "none",
                               NoTransfer, {"UserRemoved"})

\* Remove expired request to free contract storage.  The message does not
\* read its caller.
clear_expired(from, request_id, tx) ==
    /\ UNCHANGED <<admin, authorized_users, authorized_oracle, request_idx, fee,
                   min_valid_period, max_valid_period, block_number, history, tracking, stores>>
    /\ IF ~contains_key(requests, request_id)
       THEN /\ UNCHANGED <<requests, balance>>
            /\ last' = Message("clear_expired", from, request_id, NoAccount, 0,
                               "RequestNotFound", 0, "none", NoTransfer, {})
       ELSE LET request_ == requests[request_id] IN
            IF is_expired(valid_till_of(request_), block_number)
            THEN LET r == refund_(balance, user_id_of(request_), fee_of(request_), tx) IN
                 /\ balance' = r.balance
                 /\ requests' = IF r.res = "Ok" THEN take(requests, request_id)
                                ELSE requests
                 /\ last' = Message("clear_expired", from, request_id, NoAccount,
                                    0, r.res, 0, "none", r.transfer, r.events)
            ELSE /\ UNCHANGED <<requests, balance>>
                 /\ last' = Message("clear_expired", from, request_id, NoAccount,
                                    0, "RequestNotExpired", 0, "none", NoTransfer,
                                    {})

(***************************************************************************)
(* The host produces a block.                                              *)
(***************************************************************************)
advance_block ==
    /\ block_number < MaxBlock
    /\ block_number' = block_number + 1
    /\ last' = Message("advance_block", NoAccount, 0, NoAccount, 0, "Ok", 0,
                       "none", NoTransfer, {})
    /\ UNCHANGED <<storage, balance, history, tracking, stores>>

(***************************************************************************)
(* Any account sends any message; the host answers a transfer with any of  *)
(* its results.                                                            *)
(***************************************************************************)
Next ==
    \/ \E from \in Accounts, transferred \in 0..MaxPayment,
          valid_period \in 0..MaxValidPeriodArg :
          request(from, transferred, valid_period)
    \/ \E from \in Accounts, request_id \in RequestIds, delivery \in Deliveries :
          callback(from, request_id, delivery, "Ok")
    \/ \E from \in Accounts, request_id \in RequestIds,
          tx \in HostTransferResults \ {"Ok"} :
          callback(from, request_id, "Delivered", tx)
    \/ \E from \in Accounts, tx \in HostTransferResults : claim_rewards(from, tx)
    \/ \E from \in Accounts, new_oracle \in Accounts, tx \in HostTransferResults :
          set_oracle(from, new_oracle, tx)
    \/ \E from \in Accounts, new_fee \in 0..MaxFee : set_fee(from, new_fee)
    \/ \E from \in Accounts, user \in Users : add_user(from, user)
    \/ \E from \in Accounts, user \in Users : remove_user(from, user)
    \/ \E from \in Accounts, request_id \in RequestIds, tx \in HostTransferResults :
          clear_expired(from, request_id, tx)
    \/ advance_block

Spec == Init /\ [][Next]_vars

(***************************************************************************)
(* The same contract on a host whose transfers never fail.                 *)
(***************************************************************************)
ReliableHostNext ==
    \/ \E from \in Accounts, transferred \in 0..MaxPayment,
          valid_period \in 0..MaxValidPeriodArg :
          request(from, transferred, valid_period)
    \/ \E from \in Accounts, request_id \in RequestIds, delivery \in Deliveries :
          callback(from, request_id, delivery, "Ok")
    \/ \E from \in Accounts : claim_rewards(from, "Ok")
    \/ \E from \in Accounts, new_oracle \in Accounts :
          set_oracle(from, new_oracle, "Ok")
    \/ \E from \in Accounts, new_fee \in 0..MaxFee : set_fee(from, new_fee)
    \/ \E from \in Accounts, user \in Users : add_user(from, user)
    \/ \E from \in Accounts, user \in Users : remove_user(from, user)
    \/ \E from \in Accounts, request_id \in RequestIds :
          clear_expired(from, request_id, "Ok")
    \/ advance_block

ReliableHostSpec == Init /\ [][ReliableHostNext]_vars

(***************************************************************************)
(* The contract with the history of its request ids recorded.              *)
(***************************************************************************)
HistoryInit ==
    /\ StoresDeployed
    /\ admin = "alice"
    /\ authorized_users = {}
    /\ authorized_oracle \in Accounts
    /\ requests = [id \in {} |-> << >>]
    /\ request_idx = 0
    /\ fee = 0
    /\ min_valid_period = NewMinValidPeriod
    /\ max_valid_period = NewMaxValidPeriod
    /\ block_number = 0
    /\ balance = 0
    /\ last = Message("new", "alice", 0, NoAccount, 0, "Ok", 0, "none", NoTransfer, {})
    /\ history = [id \in RequestIds |-> "never"]
    /\ tracking = TRUE

\* every request carries exactly the fee, and the host's transfers succeed
HistoryNext ==
    \/ \E from \in Accounts, valid_period \in 0..MaxValidPeriodArg :
          request(from, fee, valid_period)
    \/ \E from \in Accounts, request_id \in RequestIds, delivery \in Deliveries :
          callback(from, request_id, delivery, "Ok")
    \/ \E from \in Accounts : claim_rewards(from, "Ok")
    \/ \E from \in Accounts, new_oracle \in Accounts :
          set_oracle(from, new_oracle, "Ok")
    \/ \E from \in Accounts, new_fee \in 0..MaxFee : set_fee(from, new_fee)
    \/ \E from \in Accounts, user \in Users : add_user(from, user)
    \/ \E from \in Accounts, user \in Users : remove_user(from, user)
    \/ \E from \in Accounts, request_id \in RequestIds :
          clear_expired(from, request_id, "Ok")
    \/ advance_block

HistorySpec == HistoryInit /\ [][HistoryNext]_vars

(***************************************************************************)
(* The contract as the constructor `default` leaves it: the caller is the  *)
(* admin, the oracle and a user, and the validity bounds are fixed.        *)
(***************************************************************************)
DefaultMinValidPeriod == 10
DefaultMaxValidPeriod == 100

\* request's valid_period argument: just below, at, and just above the
\* default bounds
DefaultValidPeriods == {DefaultMinValidPeriod - 1, DefaultMinValidPeriod,
                        DefaultMaxValidPeriod, DefaultMaxValidPeriod + 1}

\* variant: default does not insert the caller into authorized_users
default_without_user(caller) ==
    /\ admin = caller
    /\ authorized_oracle = caller
    /\ authorized_users = {}
    /\ requests = [id \in {} |-> << >>]
    /\ request_idx = 0
    /\ fee = 0
    /\ min_valid_period = DefaultMinValidPeriod
    /\ max_valid_period = DefaultMaxValidPeriod

default(caller) ==
    /\ admin = caller
    /\ authorized_oracle = caller
    /\ authorized_users = {caller}
    /\ requests = [id \in {} |-> << >>]
    /\ request_idx = 0
    /\ fee = 0
    /\ min_valid_period = DefaultMinValidPeriod
    /\ max_valid_period = DefaultMaxValidPeriod

DefaultInit ==
    \E caller \in Accounts :
        /\ StoresDeployed
        /\ default(caller)
        /\ block_number = 0
        /\ balance = 0
        /\ last = Message("default", caller, 0, NoAccount, 0, "Ok", 0, "none",
                          NoTransfer, {})
        /\ history = [id \in RequestIds |-> "never"]
        /\ tracking = FALSE

\* any account sends any message, with valid_period around the default
\* bounds; the host's transfers succeed, and all of it happens in the block
\* of the deployment (no request expires within MaxBlock blocks)
DefaultNext ==
    \/ \E from \in Accounts, transferred \in 0..MaxPayment,
          valid_period \in DefaultValidPeriods :
          request(from, transferred, valid_period)
    \/ \E from \in Accounts, request_id \in RequestIds, delivery \in Deliveries :
          callback(from, request_id, delivery, "Ok")
    \/ \E from \in Accounts : claim_rewards(from, "Ok")
    \/ \E from \in Accounts, new_oracle \in Accounts :
          set_oracle(from, new_oracle, "Ok")
    \/ \E from \in Accounts, new_fee \in 0..MaxFee : set_fee(from, new_fee)
    \/ \E from \in Accounts, user \in Users : add_user(from, user)
    \/ \E from \in Accounts, user \in Users : remove_user(from, user)
    \/ \E from \in Accounts, request_id \in RequestIds :
          clear_expired(from, request_id, "Ok")

DefaultSpec == DefaultInit /\ [][DefaultNext]_vars

(***************************************************************************)
(* src/simple_rng/lib.rs                                                   *)
(***************************************************************************)
rng_get_result(caller, request_id) ==
    /\ UNCHANGED <<trusted_oracle, simple_rng, simple_entropy>>
    /\ store_last' =
         IF contains_key(rng_results, request_id)
         THEN StoreMessage("simple_rng", "get_result", caller, request_id, 0,
                           NoHash, NoHash, "Ok", rng_results[request_id], NoHash)
         ELSE StoreMessage("simple_rng", "get_result", caller, request_id, 0,
                           NoHash, NoHash, "ResultNotFound", 0, NoHash)

\* min and max are stored with the request, whatever they are
rng_make_request(caller, min, max) ==
    /\ rng_request_id < MaxRngRequests
    /\ rng_request_id' = rng_request_id + 1
    /\ rng_requests' = insert(rng_requests, rng_request_id + 1, <<min, max>>)
    /\ store_last' = StoreMessage("simple_rng", "make_request", caller, 0, 0,
                                  NoHash, NoHash, "Ok", rng_request_id + 1, NoHash)
    /\ UNCHANGED <<trusted_oracle, rng_owner, rng_results, simple_entropy>>

\* variant: write_result without the test for a result already stored
rng_write_result_overwrites(caller, request_id, randint) ==
    LET res == IF ~contains_key(rng_requests, request_id) THEN "InvalidRequest"
               ELSE IF \/ randint < rng_requests[request_id][1]
                       \/ randint > rng_requests[request_id][2]
               THEN "InvalidResult"
               ELSE IF caller = rng_owner THEN "Ok"
               ELSE "PermissionDenied"
    IN  /\ rng_results' = IF res = "Ok" THEN insert(rng_results, request_id, randint)
                          ELSE rng_results
        /\ store_last' = StoreMessage("simple_rng", "write_result", caller,
                                      request_id, randint, NoHash, NoHash, res, 0,
                                      NoHash)
        /\ UNCHANGED <<trusted_oracle, rng_owner, rng_request_id, rng_requests,
                       simple_entropy>>

\* the tests of write_result in the order the code makes them; the caller is
\* compared with the owner last
rng_write_result(caller, request_id, randint) ==
    LET res == IF contains_key(rng_results, request_id) THEN "DuplicateResult"
               ELSE IF ~contains_key(rng_requests, request_id) THEN "InvalidRequest"
               ELSE IF \/ randint < rng_requests[request_id][1]
                       \/ randint > rng_requests[request_id][2]
               THEN "InvalidResult"
               ELSE IF caller = rng_owner THEN "Ok"
               ELSE "PermissionDenied"
    IN  /\ rng_results' = IF res = "Ok" THEN insert(rng_results, request_id, randint)
                          ELSE rng_results
        /\ store_last' = StoreMessage("simple_rng", "write_result", caller,
                                      request_id, randint, NoHash, NoHash, res, 0,
                                      NoHash)
        /\ UNCHANGED <<trusted_oracle, rng_owner, rng_request_id, rng_requests,
                       simple_entropy>>

(***************************************************************************)
(* src/simple_entropy/lib.rs                                               *)
(***************************************************************************)
\* get_result unwraps the entry: the message traps when there is none
entropy_get_result(caller, request_id) ==
    /\ UNCHANGED <<trusted_oracle, simple_rng, simple_entropy>>
    /\ store_last' =
         IF contains_key(entropy_requests, request_id)
         THEN StoreMessage("simple_entropy", "get_result", caller, 0, 0,
                           request_id, NoHash, "Ok", 0, entropy_requests[request_id])
         ELSE StoreMessage("simple_entropy", "get_result", caller, 0, 0,
                           request_id, NoHash, "Trapped", 0, NoHash)

entropy_make_request(caller, request_id) ==
    /\ UNCHANGED <<trusted_oracle, simple_rng, entropy_owner>>
    /\ IF contains_key(entropy_requests, request_id)
       THEN /\ UNCHANGED entropy_requests
            /\ store_last' = StoreMessage("simple_entropy", "make_request", caller,
                                          0, 0, request_id, NoHash,
                                          "RequestAlreadyExists", 0, NoHash)
       ELSE /\ entropy_requests' = insert(entropy_requests, request_id, ZeroHash)
            /\ store_last' = StoreMessage("simple_entropy", "make_request", caller,
                                          0, 0, request_id, NoHash, "Ok", 0, NoHash)

entropy_write_result(caller, request_id, result) ==
    /\ UNCHANGED <<trusted_oracle, simple_rng, entropy_owner>>
    /\ IF caller = entropy_owner
       THEN /\ entropy_requests' = insert(entropy_requests, request_id, result)
            /\ store_last' = StoreMessage("simple_entropy", "write_result", caller,
                                          0, 0, request_id, result, "Ok", 0, NoHash)
       ELSE /\ UNCHANGED entropy_requests
            /\ store_last' = StoreMessage("simple_entropy", "write_result", caller,
                                          0, 0, request_id, result,
                                          "PermissionDenied", 0, NoHash)

(***************************************************************************)
(* The two stores, each deployed with any owner; any account sends any     *)
(* message to either.  The trusted oracle is deployed and not called.      *)
(***************************************************************************)
StoresInit ==
    /\ \E owner \in Accounts : rng_new(owner)
    /\ \E owner \in Accounts : entropy_new(owner)
    /\ store_last = StoreMessage("none", "new", "alice", 0, 0, NoHash, NoHash,
                                 "Ok", 0, NoHash)
    /\ admin = "alice"
    /\ authorized_users = {}
    /\ authorized_oracle = "alice"
    /\ requests = [id \in {} |-> << >>]
    /\ request_idx = 0
    /\ fee = 0
    /\ min_valid_period = NewMinValidPeriod
    /\ max_valid_period = NewMaxValidPeriod
    /\ block_number = 0
    /\ balance = 0
    /\ last = Message("new", "alice", 0, NoAccount, 0, "Ok", 0, "none", NoTransfer, {})
    /\ history = [id \in RequestIds |-> "never"]
    /\ tracking = FALSE

StoresNext ==
    \/ \E caller \in Accounts, request_id \in RngRequestIds :
          rng_get_result(caller, request_id)
    \/ \E caller \in Accounts, min \in 0..MaxRandint, max \in 0..MaxRandint :
          rng_make_request(caller, min, max)
    \/ \E caller \in Accounts, request_id \in RngRequestIds,
          randint \in 0..MaxRandint :
          rng_write_result(caller, request_id, randint)
    \/ \E caller \in Accounts, request_id \in Hashes :
          entropy_get_result(caller, request_id)
    \/ \E caller \in Accounts, request_id \in Hashes :
          entropy_make_request(caller, request_id)
    \/ \E caller \in Accounts, request_id \in Hashes, result \in Hashes :
          entropy_write_result(caller, request_id, result)

StoresSpec == StoresInit /\ [][StoresNext]_vars

(***************************************************************************)
(* The contract with blocks that keep coming and keepers that keep calling *)
(* clear_expired: the host's transfers succeed, every request carries      *)
(* exactly the fee and is made early enough to expire before MaxBlock.     *)
(***************************************************************************)
\* the admin or the oracle calls clear_expired for an expired entry
ClearExpiredByKeeper(request_id) ==
    /\ contains_key(requests, request_id)
    /\ is_expired(valid_till_of(requests[request_id]), block_number)
    /\ \E from \in {admin, authorized_oracle} : clear_expired(from, request_id, "Ok")

LiveNext ==
    \/ \E from \in Accounts, valid_period \in 0..MaxValidPeriodArg :
          /\ block_number + valid_period < MaxBlock
          /\ request(from, fee, valid_period)
    \/ \E from \in Accounts, request_id \in RequestIds, delivery \in Deliveries :
          callback(from, request_id, delivery, "Ok")
    \/ \E from \in Accounts : claim_rewards(from, "Ok")
    \/ \E from \in Accounts, new_fee \in 0..MaxFee : set_fee(from, new_fee)
    \/ \E from \in Accounts, user \in Users : add_user(from, user)
    \/ \E from \in Accounts, request_id \in RequestIds :
          clear_expired(from, request_id, "Ok")
    \/ advance_block

LiveFairness ==
    /\ WF_vars(advance_block)
    /\ \A request_id \in RequestIds : WF_vars(ClearExpiredByKeeper(request_id))

LiveSpec == Init /\ [][LiveNext]_vars /\ LiveFairness

(***************************************************************************)
(* Definitions used by the properties.                                     *)
(***************************************************************************)
Messages == {"request", "callback", "claim_rewards", "set_oracle", "set_fee",
             "add_user", "remove_user", "clear_expired"}

RefundErrors == {"InsufficientFunds", "BelowSubsistenceThreshold", "TransferFailed"}

RECURSIVE SumOfFees(_, _)
SumOfFees(reqs, ids) ==
    IF ids = {} THEN 0
    ELSE LET id == CHOOSE x \in ids : TRUE
         IN fee_of(reqs[id]) + SumOfFees(reqs, ids \ {id})

\* the sum of escrowed_fee over all pending requests
EscrowTotal == SumOfFees(requests, DOMAIN requests)

Pending(id) == id \in DOMAIN requests
\* the request named by a message was pending with valid_till before the
\* current block
ExpiredBefore(m) == Pending(m.arg) /\ valid_till_of(requests[m.arg]) < block_number
\* the request named by a message was pending with the current block not
\* after valid_till
UnexpiredBefore(m) == Pending(m.arg) /\ block_number <= valid_till_of(requests[m.arg])

OutOfBounds(valid_period) ==
    valid_period < min_valid_period \/ valid_period > max_valid_period

(***************************************************************************)
(* C1: clear_expired called by an identity that is neither the authorized  *)
(* oracle nor the admin returns Unauthorized, removes no request and       *)
(* transfers nothing, whatever the state of the named request.             *)
(* Violated: clear_expired never reads its caller.                         *)
(***************************************************************************)
C1_ClearExpiredNeedsOracleOrAdmin ==
    [][(last'.op = "clear_expired" /\ last'.caller \notin {admin, authorized_oracle})
        => /\ last'.res = "Unauthorized"
           /\ requests' = requests
           /\ balance' = balance
           /\ last'.transfer = NoTransfer]_vars

(***************************************************************************)
(* C2: in every reachable state the contract's balance is at least the sum *)
(* of escrowed_fee over all pending requests.                              *)
(* Violated: claim_ sends the whole balance to the oracle.                 *)
(***************************************************************************)
C2_BalanceCoversEscrow == balance >= EscrowTotal

(***************************************************************************)
(* C3: clear_expired by the oracle or the admin on a pending request whose *)
(* valid_till is before the current block returns Ok, transfers the        *)
(* request's escrowed fee to its requester and removes the entry.          *)
(* Violated, also on a host whose transfers never fail: after claim_ has   *)
(* swept the escrow, refund_ returns InsufficientFunds.                    *)
(***************************************************************************)
C3_ClearExpiredRefundsAndRetires ==
    [][(/\ last'.op = "clear_expired"
        /\ last'.caller \in {admin, authorized_oracle}
        /\ ExpiredBefore(last'))
        => /\ last'.res = "Ok"
           /\ balance' = balance - fee_of(requests[last'.arg])
           /\ fee_of(requests[last'.arg]) > 0
                => last'.transfer = [to |-> user_id_of(requests[last'.arg]),
                                     amount |-> fee_of(requests[last'.arg])]
           /\ ~contains_key(requests', last'.arg)]_vars

C5_FulfillExpiredRefunds ==
    [][(/\ last'.op = "callback"
        /\ last'.caller = authorized_oracle
        /\ ExpiredBefore(last'))
        => /\ last'.res = "RequestExpired"
           /\ balance' = balance - fee_of(requests[last'.arg])
           /\ fee_of(requests[last'.arg]) > 0
                => last'.transfer = [to |-> user_id_of(requests[last'.arg]),
                                     amount |-> fee_of(requests[last'.arg])]
           /\ ~contains_key(requests', last'.arg)
           /\ last'.delivery = "none"]_vars

(***************************************************************************)
(* C6, as claimed: callback by the oracle on a pending, unexpired request  *)
(* with a successful delivery call removes the entry and emits             *)
(* CallbackComplete; every later callback by the oracle for the same id    *)
(* returns RequestNotFound and emits nothing.                              *)
(* Violated: request_idx wraps, request allocates the id again and the new *)
(* entry is fulfilled.                                                     *)
(***************************************************************************)
C6_FulfilledOncePerId ==
    [][/\ (last'.op = "callback" /\ last'.caller = authorized_oracle
           /\ UnexpiredBefore(last') /\ last'.delivery = "Delivered")
          => /\ last'.res = "Ok"
             /\ ~contains_key(requests', last'.arg)
             /\ last'.events = {"CallbackComplete"}
       /\ (last'.op = "callback" /\ last'.caller = authorized_oracle
           /\ history[last'.arg] # "never")
          => /\ last'.res = "RequestNotFound"
             /\ last'.events = {}]_vars

(***************************************************************************)
(* C6, amended: callback by the oracle on a pending, unexpired request     *)
(* with a successful delivery call removes the entry and emits             *)
(* CallbackComplete; every later callback by the oracle for the same id    *)
(* returns RequestNotFound and emits nothing until request allocates that  *)
(* id again, so at most one CallbackComplete is emitted per allocation of  *)
(* an id.                                                                  *)
(***************************************************************************)
C6_FulfilledOncePerAllocation ==
    [][/\ (last'.op = "callback" /\ last'.caller = authorized_oracle
           /\ UnexpiredBefore(last') /\ last'.delivery = "Delivered")
          => /\ last'.res = "Ok"
             /\ ~contains_key(requests', last'.arg)
             /\ last'.events = {"CallbackComplete"}
       /\ (last'.op = "callback" /\ last'.caller = authorized_oracle
           /\ history[last'.arg] = "completed")
          => /\ last'.res = "RequestNotFound"
             /\ last'.events = {}]_vars

\* the oracle called callback again for an id it had fulfilled
C6_Witness ==
    /\ last.op = "callback"
    /\ last.caller = authorized_oracle
    /\ history[last.arg] = "completed"
    /\ last.res = "RequestNotFound"

(***************************************************************************)
(* C7: when the delivery call of callback fails, callback returns          *)
(* CallbackExecutionFailed and the ledger and the contract balance are     *)
(* unchanged; a callback by the oracle on a pending, unexpired request     *)
(* (which the failed one still is) makes the delivery call, and when that  *)
(* call does not fail it returns Ok and removes the entry.                 *)
(***************************************************************************)
C7_FailedDeliveryKeepsRequest ==
    [][/\ (last'.op = "callback" /\ last'.delivery = "Trapped")
          => /\ last'.res = "CallbackExecutionFailed"
             /\ requests' = requests
             /\ balance' = balance
             /\ last'.transfer = NoTransfer
             /\ last'.events = {}
       /\ (last'.op = "callback" /\ last'.caller = authorized_oracle
           /\ UnexpiredBefore(last'))
          => /\ last'.delivery \in Deliveries
             /\ last'.delivery # "Trapped"
                  => last'.res = "Ok" /\ ~contains_key(requests', last'.arg)]_vars

\* a delivery call failed and the request is still pending and unexpired
C7_Witness ==
    /\ last.op = "callback"
    /\ last.delivery = "Trapped"
    /\ last.res = "CallbackExecutionFailed"
    /\ Pending(last.arg)
    /\ block_number <= valid_till_of(requests[last.arg])

(***************************************************************************)
(* C8: every message that returns an error other than callback's           *)
(* RequestExpired leaves the contract state as it was when the message     *)
(* started: admin, authorized_oracle, authorized_users, fee, request_idx,  *)
(* the ledger and the balance (with the value the host added for the       *)
(* call).                                                                  *)
(* Violated: request advances request_idx before it checks valid_period.   *)
(***************************************************************************)
C8_ErrorsChangeNothing ==
    [][(/\ last'.op \in Messages
        /\ last'.res # "Ok"
        /\ ~(last'.op = "callback" /\ last'.res = "RequestExpired"))
        => /\ storage' = storage
           /\ balance' = balance + last'.transferred]_vars

(***************************************************************************)
(* C9, as claimed: request with valid_period below min_valid_period or     *)
(* above max_valid_period returns ValueError for every caller and every    *)
(* fee and payment.                                                        *)
(* Violated: the caller and the payment are checked first.                 *)
(***************************************************************************)
C9_OutOfBoundsIsValueError ==
    [][(last'.op = "request" /\ OutOfBounds(last'.arg))
        => last'.res = "ValueError"]_vars

(***************************************************************************)
(* C9, amended: request with valid_period below min_valid_period or above  *)
(* max_valid_period never succeeds and stores no entry; it returns         *)
(* ValueError exactly when the caller is an authorized user and the        *)
(* payment passes (fee is zero or the payment equals the fee), otherwise   *)
(* Unauthorized or PaymentRequired.                                        *)
(***************************************************************************)
C9_OutOfBoundsNeverAccepted ==
    [][(last'.op = "request" /\ OutOfBounds(last'.arg))
        => /\ last'.res \in {"Unauthorized", "PaymentRequired", "ValueError"}
           /\ requests' = requests
           /\ last'.events = {}
           /\ last'.res = "ValueError"
                <=> /\ last'.caller \in authorized_users
                    /\ fee = 0 \/ last'.transferred = fee]_vars

\* a request above max_valid_period got ValueError in zero-fee mode with a
\* payment attached
C9_Witness ==
    /\ last.op = "request"
    /\ last.arg > max_valid_period
    /\ fee = 0
    /\ last.transferred > 0
    /\ last.res = "ValueError"

(***************************************************************************)
(* C10: request checks in a fixed order: a caller not in authorized_users  *)
(* gets Unauthorized whatever the payment and valid_period; otherwise a    *)
(* payment different from a positive fee gets PaymentRequired whatever the *)
(* valid_period; only then an out-of-bounds valid_period gets ValueError.  *)
(***************************************************************************)
C10_RequestCheckOrder ==
    [][last'.op = "request"
        => /\ last'.caller \notin authorized_users => last'.res = "Unauthorized"
           /\ (last'.caller \in authorized_users /\ fee > 0
               /\ last'.transferred # fee)
                => last'.res = "PaymentRequired"
           /\ (last'.caller \in authorized_users
               /\ ~(fee > 0 /\ last'.transferred # fee)
               /\ OutOfBounds(last'.arg))
                => last'.res = "ValueError"]_vars

\* an authorized user sent a wrong payment and an out-of-bounds valid_period
\* and got PaymentRequired
C10_Witness ==
    /\ last.op = "request"
    /\ last.caller \in authorized_users
    /\ fee > 0
    /\ last.transferred # fee
    /\ OutOfBounds(last.arg)
    /\ last.res = "PaymentRequired"

(***************************************************************************)
(* C11: for an authorized caller and a valid_period within the bounds,     *)
(* request with fee > 0 returns Ok exactly when the transferred value      *)
(* equals fee, and PaymentRequired for every smaller and every larger      *)
(* value; with fee = 0 it returns Ok for every transferred value.          *)
(***************************************************************************)
C11_PaymentMustEqualFee ==
    [][(/\ last'.op = "request"
        /\ last'.caller \in authorized_users
        /\ ~OutOfBounds(last'.arg))
        => /\ fee > 0 => /\ last'.res = "Ok" <=> last'.transferred = fee
                         /\ last'.transferred # fee => last'.res = "PaymentRequired"
           /\ fee = 0 => last'.res = "Ok"
           /\ last'.res = "Ok" => /\ contains_key(requests', last'.ok)
                                  /\ last'.events = {"Request"}]_vars

\* an authorized user paid more than a positive fee, with a valid_period
\* within the bounds, and got PaymentRequired
C11_Witness ==
    /\ last.op = "request"
    /\ last.caller \in authorized_users
    /\ ~OutOfBounds(last.arg)
    /\ fee > 0
    /\ last.transferred > fee
    /\ last.res = "PaymentRequired"

\* a successful request stored (caller, current block + valid_period, _)
\* under the id it returned, with valid_period within the bounds
StoredAsSubmitted(m) ==
    /\ contains_key(requests', m.ok)
    /\ user_id_of(requests'[m.ok]) = m.caller
    /\ valid_till_of(requests'[m.ok]) = block_number + m.arg
    /\ min_valid_period <= m.arg
    /\ m.arg <= max_valid_period

\* the step that made message m stored a new request under id
Allocates(m, id) == m.op = "request" /\ m.res = "Ok" /\ m.ok = id

(***************************************************************************)
(* C12, as claimed: every entry of the ledger has valid_till = the block   *)
(* of its request + the valid_period of its request, with                  *)
(* min_valid_period <= valid_period <= max_valid_period; the valid_till    *)
(* and the requester stored under an id do not change while the id is      *)
(* pending.                                                                *)
(* Violated: request_idx wraps to an id that is still pending and insert   *)
(* overwrites its entry.                                                   *)
(***************************************************************************)
C12_EntryFixedWhilePending ==
    [][/\ (last'.op = "request" /\ last'.res = "Ok") => StoredAsSubmitted(last')
       /\ \A id \in RequestIds :
             (Pending(id) /\ contains_key(requests', id))
             => /\ valid_till_of(requests'[id]) = valid_till_of(requests[id])
                /\ user_id_of(requests'[id]) = user_id_of(requests[id])]_vars

(***************************************************************************)
(* C12, amended: every entry of the ledger has valid_till = the block of   *)
(* its request + the valid_period of its request, with                     *)
(* min_valid_period <= valid_period <= max_valid_period; the valid_till    *)
(* and the requester stored under an id do not change while the id is      *)
(* pending, except when request_idx has wrapped to that id and a new       *)
(* request replaces the entry with its own.                                *)
(***************************************************************************)
C12_EntryFixedUntilReplaced ==
    [][/\ (last'.op = "request" /\ last'.res = "Ok") => StoredAsSubmitted(last')
       /\ \A id \in RequestIds :
             (Pending(id) /\ contains_key(requests', id) /\ ~Allocates(last', id))
             => requests'[id] = requests[id]]_vars

\* a request was stored at a later block while an older entry, already past
\* its valid_till, is still in the ledger
C12_Witness ==
    /\ last.op = "request"
    /\ last.res = "Ok"
    /\ block_number > 0
    /\ valid_till_of(requests[last.ok]) = block_number + last.arg
    /\ \E id \in DOMAIN requests :
          id # last.ok /\ valid_till_of(requests[id]) < block_number

(***************************************************************************)
(* C13: the fee stored with a request is the storage field fee at the time *)
(* of the request; set_fee changes nothing but the field fee, so the fee   *)
(* stored with a pending request stays what it was, and a refund made by   *)
(* clear_expired or callback transfers that stored fee.                    *)
(***************************************************************************)
C13_EscrowedFeeIsFeeAtRequest ==
    [][/\ (last'.op = "request" /\ last'.res = "Ok")
          => /\ contains_key(requests', last'.ok)
             /\ requests'[last'.ok][3] = fee
       /\ last'.op = "set_fee"
          => /\ requests' = requests
             /\ <<admin, authorized_users, authorized_oracle, request_idx,
                   min_valid_period, max_valid_period, balance>>'
                = <<admin, authorized_users, authorized_oracle, request_idx,
                    min_valid_period, max_valid_period, balance>>
             /\ last'.transfer = NoTransfer
             /\ last'.res = "Ok" => fee' = last'.arg
       /\ (last'.op \in {"clear_expired", "callback"} /\ last'.transfer # NoTransfer)
          => /\ Pending(last'.arg)
             /\ last'.transfer.amount = requests[last'.arg][3]]_vars

\* set_fee has changed the fee while a request with another fee is pending
C13_Witness ==
    /\ last.op = "set_fee"
    /\ last.res = "Ok"
    /\ fee = last.arg
    /\ \E id \in DOMAIN requests : requests[id][3] # fee

AdminMessages == {"set_fee", "set_oracle", "add_user", "remove_user"}
OracleMessages == {"callback", "claim_rewards"}

\* the message was refused and did nothing
Refused(m) ==
    /\ m.res = "Unauthorized"
    /\ storage' = storage
    /\ balance' = balance
    /\ m.transfer = NoTransfer
    /\ m.events = {}

(***************************************************************************)
(* C14: set_fee, set_oracle, add_user and remove_user return Unauthorized  *)
(* and change nothing when the caller is not the admin, and do not return  *)
(* Unauthorized when it is; callback and claim_rewards return Unauthorized *)
(* and change nothing when the caller is not the authorized_oracle of the  *)
(* current state, and do not return Unauthorized when it is.               *)
(***************************************************************************)
C14_RoleGating ==
    [][/\ last'.op \in AdminMessages
          => IF last'.caller # admin THEN Refused(last')
             ELSE last'.res # "Unauthorized"
       /\ last'.op \in OracleMessages
          => IF last'.caller # authorized_oracle THEN Refused(last')
             ELSE last'.res # "Unauthorized"]_vars

\* claim_rewards by the admin was refused while the contract holds a balance:
\* the admin is not the oracle
C14_Witness ==
    /\ last.op = "claim_rewards"
    /\ last.caller = admin
    /\ last.caller # authorized_oracle
    /\ last.res = "Unauthorized"
    /\ balance > 0

TransferErrors == {"BelowSubsistenceThreshold", "TransferFailed"}

(***************************************************************************)
(* C15: set_oracle by the admin first sends the whole contract balance to  *)
(* the oracle of the state before the call and only then stores the new    *)
(* oracle and emits OracleSet; when that transfer fails, set_oracle        *)
(* returns the transfer's error, authorized_oracle and the balance are     *)
(* unchanged and OracleSet is not emitted.                                 *)
(***************************************************************************)
C15_SetOracleSweepsToOldOracle ==
    [][(last'.op = "set_oracle" /\ last'.caller = admin)
        => /\ last'.res \in {"Ok"} \cup TransferErrors
           /\ last'.res = "Ok"
                => /\ authorized_oracle' = last'.who
                   /\ balance' = 0
                   /\ "OracleSet" \in last'.events
                   /\ IF balance > 0
                      THEN /\ last'.transfer = [to |-> authorized_oracle,
                                                amount |-> balance]
                           /\ "RewardsClaimed" \in last'.events
                      ELSE /\ last'.transfer = NoTransfer
                           /\ last'.events = {"OracleSet"}
           /\ last'.res \in TransferErrors
                => /\ balance > 0
                   /\ authorized_oracle' = authorized_oracle
                   /\ balance' = balance
                   /\ last'.transfer = NoTransfer
                   /\ last'.events = {}
           /\ <<admin, authorized_users, requests, request_idx, fee>>'
              = <<admin, authorized_users, requests, request_idx, fee>>]_vars

\* set_oracle has installed a new oracle and the balance went to another
\* account, the oracle before the call
C15_Witness ==
    /\ last.op = "set_oracle"
    /\ last.res = "Ok"
    /\ authorized_oracle = last.who
    /\ last.transfer.amount > 0
    /\ last.transfer.to # authorized_oracle
    /\ balance = 0

\* claim_rewards sent the whole balance to the oracle
SweptToOracle(m) ==
    /\ m.res = "Ok"
    /\ m.transfer = [to |-> authorized_oracle, amount |-> balance]
    /\ balance' = 0
    /\ m.events = {"RewardsClaimed"}

\* the message made no transfer, emitted nothing and left the balance
NothingMoved(m) ==
    /\ m.transfer = NoTransfer
    /\ m.events = {}
    /\ balance' = balance

(***************************************************************************)
(* C16, as claimed: claim_rewards by the oracle with a positive balance    *)
(* transfers the whole balance to authorized_oracle, leaves balance 0 and  *)
(* emits RewardsClaimed; with balance 0 it returns Ok, transfers nothing   *)
(* and emits nothing; the ledger is unchanged in both cases.               *)
(* Violated: the host can refuse the transfer, and claim_rewards then      *)
(* returns the error and transfers nothing.                                *)
(***************************************************************************)
C16_ClaimRewardsSweepsAll ==
    [][(last'.op = "claim_rewards" /\ last'.caller = authorized_oracle)
        => /\ requests' = requests
           /\ IF balance > 0 THEN SweptToOracle(last')
              ELSE last'.res = "Ok" /\ NothingMoved(last')]_vars

(***************************************************************************)
(* C16, amended: claim_rewards by the oracle with a positive balance       *)
(* either transfers the whole balance to authorized_oracle, leaves balance *)
(* 0 and emits RewardsClaimed, or, when the host refuses the transfer,     *)
(* returns BelowSubsistenceThreshold or TransferFailed with the balance    *)
(* unchanged and nothing emitted; with balance 0 it returns Ok, transfers  *)
(* nothing and emits nothing; the ledger is unchanged in all cases.        *)
(***************************************************************************)
C16_ClaimRewardsSweepsAllOrFails ==
    [][(last'.op = "claim_rewards" /\ last'.caller = authorized_oracle)
        => /\ requests' = requests
           /\ storage' = storage
           /\ IF balance > 0
              THEN \/ SweptToOracle(last')
                   \/ last'.res \in TransferErrors /\ NothingMoved(last')
              ELSE last'.res = "Ok" /\ NothingMoved(last')]_vars

\* claim_rewards has sent a balance to the oracle while a request is pending
C16_Witness ==
    /\ last.op = "claim_rewards"
    /\ last.res = "Ok"
    /\ last.transfer.to = authorized_oracle
    /\ last.transfer.amount > 0
    /\ balance = 0
    /\ DOMAIN requests # {}

(***************************************************************************)
(* C17: add_user and remove_user by the admin always return Ok and emit    *)
(* UserAdded / UserRemoved.  add_user of a user already in                 *)
(* authorized_users and remove_user of a user not in it leave              *)
(* authorized_users unchanged; after add_user(u) the user u is authorized  *)
(* and after remove_user(u) it is not, whatever came before, and no other  *)
(* user's authorization changes.                                           *)
(***************************************************************************)
C17_AddRemoveUserIdempotent ==
    [][/\ (last'.op = "add_user" /\ last'.caller = admin)
          => /\ last'.res = "Ok"
             /\ last'.events = {"UserAdded"}
             /\ authorized_users' = authorized_users \cup {last'.who}
             /\ last'.who \in authorized_users
                  => authorized_users' = authorized_users
       /\ (last'.op = "remove_user" /\ last'.caller = admin)
          => /\ last'.res = "Ok"
             /\ last'.events = {"UserRemoved"}
             /\ authorized_users' = authorized_users \ {last'.who}
             /\ last'.who \notin authorized_users
                  => authorized_users' = authorized_users
       /\ (last.op = "add_user" /\ last.res = "Ok"
           /\ last'.op = "remove_user" /\ last'.res = "Ok"
           /\ last'.who = last.who)
          => last'.who \notin authorized_users']_vars

\* the admin removed a user whose request is still pending: the user was
\* authorized and is not any more
C17_Witness ==
    /\ last.op = "remove_user"
    /\ last.res = "Ok"
    /\ last.events = {"UserRemoved"}
    /\ last.who \notin authorized_users
    /\ \E id \in DOMAIN requests : user_id_of(requests[id]) = last.who

(***************************************************************************)
(* C18: a successful request with a positive fee followed by a successful  *)
(* clear_expired of that request leaves the contract's balance and the     *)
(* requester's balance as they were before the request: the request adds   *)
(* exactly the fee it stores to the contract's balance, taken from the     *)
(* caller; the stored entry stays as it is until it is removed or          *)
(* replaced; clear_expired transfers exactly the stored fee from the       *)
(* contract to the stored requester and removes the entry.                 *)
(***************************************************************************)
C18_RefundEqualsPayment ==
    [][/\ (last'.op = "request" /\ last'.res = "Ok" /\ fee > 0)
          => /\ last'.transferred = fee
             /\ requests'[last'.ok] = <<last'.caller, block_number + last'.arg,
                                        last'.transferred>>
             /\ balance' = balance + last'.transferred
       /\ \A id \in RequestIds :
             (Pending(id) /\ contains_key(requests', id) /\ ~Allocates(last', id))
             => requests'[id] = requests[id]
       /\ (last'.op = "clear_expired" /\ last'.res = "Ok" /\ Pending(last'.arg)
           /\ fee_of(requests[last'.arg]) > 0)
          => /\ last'.transfer = [to |-> user_id_of(requests[last'.arg]),
                                  amount |-> fee_of(requests[last'.arg])]
             /\ balance' = balance - fee_of(requests[last'.arg])
             /\ ~contains_key(requests', last'.arg)]_vars

\* clear_expired has refunded a positive fee to the requester and the
\* contract's balance is 0 again
C18_Witness ==
    /\ last.op = "clear_expired"
    /\ last.res = "Ok"
    /\ last.transfer.amount > 0
    /\ last.transfer.to \in Users
    /\ ~Pending(last.arg)
    /\ balance = 0

(***************************************************************************)
(* C19: request_idx is the number of successful requests so far, modulo    *)
(* the width of the counter: it starts at 0, a successful request advances *)
(* it by one and returns the new value, and no other step changes it, so   *)
(* the k-th successful request returns id k.                               *)
(* Violated: a request that returns ValueError has advanced request_idx.   *)
(***************************************************************************)
C19_RequestIdxCountsSuccesses ==
    [][IF last'.op = "request" /\ last'.res = "Ok"
       THEN /\ request_idx' = wrapping_add(request_idx)
            /\ last'.ok = request_idx'
       ELSE request_idx' = request_idx]_vars

\* the state `default` leaves: one identity in all three roles, no fee,
\* the bounds [10, 100], nothing requested yet
AfterDefault ==
    /\ admin = last.caller
    /\ authorized_oracle = last.caller
    /\ last.caller \in authorized_users
    /\ fee = 0
    /\ min_valid_period = 10
    /\ max_valid_period = 100
    /\ request_idx = 0
    /\ DOMAIN requests = {}

\* the state after the deployer's first request, made right after `default`
\* with valid_period 10
FirstRequestMade ==
    /\ last.op = "request"
    /\ last.res = "Ok"
    /\ last.ok = 1
    /\ last.arg = 10
    /\ last.caller = admin
    /\ last.caller = authorized_oracle
    /\ request_idx = 1
    /\ Pending(1)
    /\ valid_till_of(requests[1]) = 10
    /\ block_number = 0

(***************************************************************************)
(* C20: after `default` the caller is the admin, the authorized oracle and *)
(* an authorized user, fee is 0 and the validity bounds are [10, 100];     *)
(* a request by that caller with valid_period 10 then returns Ok(1),       *)
(* whatever value it carries, and leaves the roles as they are; and a      *)
(* callback by that caller for id 1 then returns Ok, removes the entry and *)
(* emits CallbackComplete unless the delivery call fails.                  *)
(***************************************************************************)
C20_DefaultDeployerHoldsAllRoles ==
    [][/\ last.op = "default" => AfterDefault
       /\ (last.op = "default" /\ last'.op = "request"
           /\ last'.caller = last.caller /\ last'.arg = 10)
          => /\ last'.res = "Ok"
             /\ last'.ok = 1
             /\ FirstRequestMade'
       /\ (FirstRequestMade /\ last'.op = "callback"
           /\ last'.caller = last.caller /\ last'.arg = 1)
          => IF last'.delivery = "Trapped"
             THEN last'.res = "CallbackExecutionFailed"
             ELSE /\ last'.res = "Ok"
                  /\ ~contains_key(requests', 1)
                  /\ last'.events = {"CallbackComplete"}]_vars

\* the deployer, still admin, oracle and user, has fulfilled request 1 in
\* the block of the deployment
C20_Witness ==
    /\ last.op = "callback"
    /\ last.res = "Ok"
    /\ last.arg = 1
    /\ last.caller = admin
    /\ last.caller = authorized_oracle
    /\ last.caller \in authorized_users
    /\ fee = 0
    /\ min_valid_period = 10
    /\ max_valid_period = 100
    /\ request_idx = 1
    /\ block_number = 0
    /\ DOMAIN requests = {}

\* the step was the message `op` of simple_rng
RngMessage(m, op) == m.contract = "simple_rng" /\ m.op = op

(***************************************************************************)
(* C22: in simple_rng a result is written once.  write_result that returns *)
(* Ok stores randint for an id that had no result; a result once stored is *)
(* never changed or removed by any step; write_result for an id that has a *)
(* result returns DuplicateResult, whoever calls and whatever the value;   *)
(* get_result returns the stored value, and ResultNotFound while there is  *)
(* none.                                                                   *)
(***************************************************************************)
C22_RngResultWrittenOnce ==
    [][/\ \A id \in DOMAIN rng_results :
             /\ contains_key(rng_results', id)
             /\ rng_results'[id] = rng_results[id]
       /\ RngMessage(store_last', "write_result")
          => /\ contains_key(rng_results, store_last'.arg)
                  => store_last'.res = "DuplicateResult"
             /\ store_last'.res = "Ok"
                  => /\ ~contains_key(rng_results, store_last'.arg)
                     /\ contains_key(rng_results', store_last'.arg)
                     /\ rng_results'[store_last'.arg] = store_last'.value
             /\ store_last'.res # "Ok" => rng_results' = rng_results
       /\ RngMessage(store_last', "get_result")
          => IF contains_key(rng_results, store_last'.arg)
             THEN /\ store_last'.res = "Ok"
                  /\ store_last'.ok = rng_results[store_last'.arg]
             ELSE store_last'.res = "ResultNotFound"]_vars

\* the owner's second write_result for an id, with another value, was
\* refused and the first value is still stored
C22_Witness ==
    /\ RngMessage(store_last, "write_result")
    /\ store_last.caller = rng_owner
    /\ store_last.res = "DuplicateResult"
    /\ contains_key(rng_results, store_last.arg)
    /\ rng_results[store_last.arg] # store_last.value
    /\ store_last.value >= rng_requests[store_last.arg][1]
    /\ store_last.value <= rng_requests[store_last.arg][2]

(***************************************************************************)
(* C23: in simple_entropy and in simple_rng, write_result by a caller that *)
(* is not the owner returns PermissionDenied and leaves the stored results *)
(* as they are (simple_entropy: the entry of the request keeps the zero    *)
(* hash; simple_rng: get_result still returns ResultNotFound).             *)
(* Violated in simple_rng: write_result compares the caller with the owner *)
(* last, after the tests that return DuplicateResult, InvalidRequest and   *)
(* InvalidResult.                                                          *)
(***************************************************************************)
C23_NonOwnerWriteIsDenied ==
    [][/\ (/\ store_last'.contract = "simple_entropy"
           /\ store_last'.op = "write_result"
           /\ store_last'.caller # entropy_owner)
          => /\ store_last'.res = "PermissionDenied"
             /\ entropy_requests' = entropy_requests
       /\ (RngMessage(store_last', "write_result") /\ store_last'.caller # rng_owner)
          => /\ store_last'.res = "PermissionDenied"
             /\ rng_results' = rng_results]_vars

(***************************************************************************)
(* C21: no request stays pending forever: with blocks advancing and the    *)
(* admin or the oracle calling clear_expired for expired entries (weak     *)
(* fairness of both), every id in the ledger eventually is out of the      *)
(* ledger, fulfilled or refunded.                                          *)
(* Violated: after claim_ has sent the escrow to the oracle, every         *)
(* clear_expired and callback for the expired entry returns                *)
(* InsufficientFunds and the entry stays.                                  *)
(***************************************************************************)
C21_EveryRequestLeavesLedger ==
    \A id \in RequestIds : Pending(id) ~> ~Pending(id)

\* message m retired the entry it names: a delivery that succeeded, or a
\* refund that succeeded in callback or in clear_expired
Retires(m, id) ==
    /\ m.arg = id
    /\ \/ m.op = "callback" /\ m.res = "Ok" /\ "CallbackComplete" \in m.events
       \/ m.op = "callback" /\ m.res = "RequestExpired"
                            /\ "RequestInvalidated" \in m.events
       \/ m.op = "clear_expired" /\ m.res = "Ok"
                                 /\ "RequestInvalidated" \in m.events

Refunds(m, id) ==
    /\ m.arg = id
    /\ m.op \in {"callback", "clear_expired"}
    /\ "RequestInvalidated" \in m.events

ReachesRefund(m) ==
    /\ ExpiredBefore(m)
    /\ \/ m.op = "clear_expired"
       \/ m.op = "callback" /\ m.caller = authorized_oracle

(***************************************************************************)
(* C26: when the refund of an expired request fails, with InsufficientFunds*)
(* when the stored fee is positive and above the contract balance or with  *)
(* the error of a failed host transfer, callback and clear_expired return  *)
(* that error, the entry stays in the ledger, the balance is unchanged,    *)
(* nothing is transferred and RequestInvalidated is not emitted; a refund  *)
(* of a stored fee of 0 never fails and transfers nothing.                 *)
(***************************************************************************)
C26_FailedRefundChangesNothing ==
    [][ReachesRefund(last')
       => LET entry == requests[last'.arg]
          IN /\ (fee_of(entry) > 0 /\ balance < fee_of(entry))
                => last'.res = "InsufficientFunds"
             /\ last'.res = "InsufficientFunds"
                => fee_of(entry) > 0 /\ balance < fee_of(entry)
             /\ last'.res \in TransferErrors
                => fee_of(entry) > 0 /\ balance >= fee_of(entry)
             /\ last'.res \in RefundErrors
                => /\ requests' = requests
                   /\ NothingMoved(last')
             /\ last'.res \notin RefundErrors
                => /\ last'.res = (IF last'.op = "callback"
                                      THEN "RequestExpired" ELSE "Ok")
                   /\ ~contains_key(requests', last'.arg)
                   /\ "RequestInvalidated" \in last'.events
             /\ fee_of(entry) = 0
                => /\ last'.res \notin RefundErrors
                   /\ last'.transfer = NoTransfer
                   /\ balance' = balance]_vars

\* callback by the oracle has returned InsufficientFunds for a request that
\* is expired and still in the ledger with a fee above the balance
C26_Witness ==
    /\ last.op = "callback"
    /\ last.res = "InsufficientFunds"
    /\ Pending(last.arg)
    /\ valid_till_of(requests[last.arg]) < block_number
    /\ balance < fee_of(requests[last.arg])

(***************************************************************************)
(* C27: when the callee of the delivery call runs and returns an error     *)
(* value (as set_bitcoin_price of the consumer does with Unauthorized),    *)
(* callback by the oracle for an unexpired pending request returns         *)
(* CallbackExecutionFailed, the request stays in the ledger and            *)
(* CallbackComplete is not emitted.                                        *)
(***************************************************************************)
C27_RejectedDeliveryKeepsRequest ==
    [][(/\ last'.op = "callback"
        /\ last'.caller = authorized_oracle
        /\ UnexpiredBefore(last')
        /\ last'.delivery = "Rejected")
       => /\ last'.res = "CallbackExecutionFailed"
          /\ requests' = requests
          /\ "CallbackComplete" \notin last'.events]_vars

(***************************************************************************)
(* The behaviours in which request_idx has not wrapped around: the         *)
(* messages of Next, with the request that would take the counter past its *)
(* largest value left out.                                                 *)
(***************************************************************************)
NoWrapNext ==
    \/ \E from \in Accounts, transferred \in 0..MaxPayment,
          valid_period \in 0..MaxValidPeriodArg :
          /\ request_result(from, transferred, valid_period) \in {"ValueError", "Ok"}
             => request_idx < MaxId
          /\ request(from, transferred, valid_period)
    \/ \E from \in Accounts, request_id \in RequestIds, delivery \in Deliveries :
          callback(from, request_id, delivery, "Ok")
    \/ \E from \in Accounts, request_id \in RequestIds,
          tx \in HostTransferResults \ {"Ok"} :
          callback(from, request_id, "Delivered", tx)
    \/ \E from \in Accounts, tx \in HostTransferResults : claim_rewards(from, tx)
    \/ \E from \in Accounts, new_oracle \in Accounts, tx \in HostTransferResults :
          set_oracle(from, new_oracle, tx)
    \/ \E from \in Accounts, new_fee \in 0..MaxFee : set_fee(from, new_fee)
    \/ \E from \in Accounts, user \in Users : add_user(from, user)
    \/ \E from \in Accounts, user \in Users : remove_user(from, user)
    \/ \E from \in Accounts, request_id \in RequestIds, tx \in HostTransferResults :
          clear_expired(from, request_id, tx)
    \/ advance_block

NoWrapSpec == Init /\ [][NoWrapNext]_vars

C29_CallerCheckFirstInCallback ==
    [][(last'.op = "callback" /\ last'.caller # authorized_oracle)
       => /\ Refused(last')
          /\ requests' = requests
          /\ last'.delivery = "none"
          /\ "RequestInvalidated" \notin last'.events]_vars

\* a callback by an identity other than the oracle has been refused for a
\* request that is expired and could have been refunded, and the request is
\* still in the ledger
C29_Witness ==
    /\ last.op = "callback"
    /\ last.caller # authorized_oracle
    /\ last.res = "Unauthorized"
    /\ Pending(last.arg)
    /\ valid_till_of(requests[last.arg]) < block_number
    /\ fee_of(requests[last.arg]) > 0
    /\ balance >= fee_of(requests[last.arg])
    /\ \E id \in RequestIds : ~Pending(id)

(***************************************************************************)
(* C30: remove_user and set_oracle leave every entry of the ledger as it   *)
(* was, and a pending request that could be refunded before the call      *)
(* (the contract balance covers its stored fee) can be refunded after it.  *)
(***************************************************************************)
C30_AccessChangesKeepRequests ==
    [][last'.op \in {"remove_user", "set_oracle"}
       => /\ requests' = requests
          /\ \A id \in DOMAIN requests :
                balance >= fee_of(requests[id])
                => balance' >= fee_of(requests'[id])]_vars

\* what the contract holds beyond the fees of the pending requests
Earned == balance - EscrowTotal

(***************************************************************************)
(* C31: a callback that returns Ok moves no funds: it carries no value,    *)
(* makes no transfer and leaves the contract balance unchanged, so no      *)
(* account's balance changes and the stored fee of the fulfilled request   *)
(* passes from escrow to what the contract holds beyond escrow; that part  *)
(* of the balance goes down only by the sweep of claim_rewards or          *)
(* set_oracle, which sends the whole balance to the oracle.                *)
(***************************************************************************)
C31_FulfillMovesNoFunds ==
    [][/\ (last'.op = "callback" /\ last'.res = "Ok")
          => /\ Pending(last'.arg)
             /\ balance' = balance
             /\ last'.transfer = NoTransfer
             /\ last'.transferred = 0
             /\ Earned' = Earned + fee_of(requests[last'.arg])
       /\ Earned' < Earned
          => /\ last'.op \in {"claim_rewards", "set_oracle"}
             /\ last'.res = "Ok"
             /\ last'.transfer = [to |-> authorized_oracle, amount |-> balance]
             /\ balance' = 0]_vars

\* the oracle's callback has delivered a request that had a positive fee,
\* and the fee is still in the contract
C31_Witness ==
    /\ last.op = "callback"
    /\ last.res = "Ok"
    /\ last.delivery = "Delivered"
    /\ last.transfer = NoTransfer
    /\ ~Pending(last.arg)
    /\ Earned > 0
    /\ balance = MaxFee

====
